---- MODULE Spec2Model ----
(***************************************************************************)
(* A model of src/fuzz.py, the Neutron network fuzzer.                     *)
(*                                                                         *)
(* The file is modelled statement by statement with Python's semantics:    *)
(* an unbound name raises NameError, a call with a missing argument or     *)
(* str + int raises TypeError, an exception unwinds to the nearest         *)
(* handler.  One behaviour of the model exercises one unit of the file,    *)
(* chosen by `entry`: the script itself (the `if __name__ == "__main__"`   *)
(* block) or one of the module's functions and classes called directly.    *)
(* The `finally:` of line 335 has no body; it is read as an empty clause.  *)
(***************************************************************************)
EXTENDS Naturals, Integers, Sequences, FiniteSets, TLC

\* ------------------------------------------------------------------ bounds
\* the largest <nets> / num argument tried
MaxNets == 2
\* the largest number of processes one Spawner is asked to spawn
MaxProcs == 3
\* the largest number of signals delivered to the process
MaxSignals == 2

\* ------------------------------------------------------------------- state
VARIABLES
    entry,          \* the unit this behaviour exercises
    pc,             \* the main thread's position
    stack,          \* return positions of the calls in progress
    opts,           \* the options / arguments: nets, keep, agent, creds
    argNets,        \* how the callee receives nets: "int", "str" or "none"
    globals,        \* module globals bound so far, among opts and creds
    handlers,       \* abort is installed for SIGINT and SIGTERM
    pending,        \* signals delivered whose Python handler has not run yet
    nsig,           \* signals delivered so far
    sigsInTeardown, \* signals delivered while __exit__ was running
    exc,            \* the exception that ended the unit, or "none"
    bodyExc,        \* the exception the with-body or try-body raised, or "none"
    exitcode,       \* the script's exit status, -1 while it runs
    procs,          \* every external process launched, in launch order
    handles,        \* the list of Popen objects being collected / waited on
    codes,          \* the exit statuses the running wait has collected
    ret,            \* the value the batch unit returned
    waited,         \* the list of processes the last finished wait covered
    calls,          \* the batch functions invoked, in order
    timer,          \* coalesce's watchdog: none, armed, fired, cancelled
    stats,          \* coalesce's stats: the rows of the listing it read
    rcfile,         \* the key=value lines of the credentials file, as a map
    env,            \* the env argument of Credentials, a map
    selfenv         \* Credentials.env, empty until line 95 assigns it

vars == <<entry, pc, stack, opts, argNets, globals, handlers, pending, nsig,
          sigsInTeardown, exc, bodyExc, exitcode, procs, handles, codes, ret,
          waited, calls, timer, stats, rcfile, env, selfenv>>

Entries == {"main", "session", "docalls", "makenets", "makesubs", "delnets",
            "delsubs", "coalesce", "spawner", "credentials"}

Signals == {"SIGINT", "SIGTERM"}

\* Subclasses of Exception, which `except Exception` (line 337) catches.
\* SystemExit is a BaseException and is not among them.
Exceptions == {"NameError", "TypeError", "AttributeError", "OSError",
               "KeyError", "CalledProcessError", "Error"}

\* The positions inside Networks.__exit__ and the batches it calls.
ExitPcs == {"exit", "exit_p1", "exit_delsubs", "exit_p2", "exit_ret"}

Finished == pc \in {"done", "exited"}

\* ----------------------------------------------------------------- helpers
\* An exception e raised at the current position unwinds:
\*  - in the script, an Exception is caught at line 337 (after the empty
\*    finally of line 335), anything else ends the process; SystemExit with
\*    no argument gives status 0, an uncaught exception status 1;
\*  - in a with-statement, an exception of the body runs __exit__;
\*  - otherwise it leaves the unit and reaches the caller.
\* bodyExc keeps the exception the handler (line 337, or __exit__) received.
Raise(e) ==
    /\ stack' = <<>>
    /\ IF entry = "main"
       THEN IF e \in Exceptions /\ pc # "except"
            THEN /\ pc' = "except"
                 /\ exc' = e
                 /\ bodyExc' = e
                 /\ exitcode' = exitcode
            ELSE /\ pc' = "exited"
                 /\ exc' = e
                 /\ bodyExc' = bodyExc
                 /\ exitcode' = IF e = "SystemExit" THEN 0 ELSE 1
       ELSE /\ exitcode' = exitcode
            /\ IF entry = "session" /\ pc = "body"
               THEN pc' = "exit" /\ bodyExc' = e /\ exc' = exc
               ELSE pc' = "done" /\ exc' = e /\ bodyExc' = bodyExc

\* A call returns to the position its caller pushed; a unit called directly
\* is done.
ReturnTo ==
    IF stack = <<>>
    THEN pc' = "done" /\ stack' = stack
    ELSE pc' = Head(stack) /\ stack' = Tail(stack)

\* subprocess.Popen: a new running process of the given kind for `index`.
\* rank is the place of its termination among the terminations so far.
Popen(kind, index) ==
    [kind |-> kind, index |-> index, st |-> "running", status |-> -1,
     rank |-> 0]

\* A wait that collects the statuses in front: the list comes out reversed.
Collect_Prepends(cs, s) == <<s>> \o cs

\* [proc.wait() ...]: the status just read is added at the end of the list,
\* so the list is in the order of the waits.
Collect(cs, s) == Append(cs, s)

\* range(1, nets + 1) as the batch functions evaluate it: str + int raises
\* TypeError; otherwise the number of indices.
RangeOutcome(how, n) ==
    IF how = "str" THEN "TypeError" ELSE IF n >= 1 THEN "some" ELSE "empty"

\* ------------------------------------------------ the operating system
\* A running external process terminates with exit status s, at any time.
Finish(i, s) ==
    /\ i \in 1..Len(procs)
    /\ procs[i].st = "running"
    /\ procs' = [procs EXCEPT
                     ![i].st = "done", ![i].status = s,
                     ![i].rank = 1 + Cardinality({j \in 1..Len(procs) :
                                                    procs[j].st = "done"})]
    /\ UNCHANGED <<entry, rcfile, env, selfenv, stats,
                   pc, stack, opts, argNets, globals, handlers,
                   pending, nsig, sigsInTeardown, exc, bodyExc, exitcode,
                   handles, codes, ret, waited, calls, timer>>

\* A SIGINT or SIGTERM reaches the process.  With abort installed the C-level
\* handler only marks the signal; abort itself runs later, in the main thread.
Deliver(sig) ==
    /\ handlers
    /\ ~Finished
    /\ nsig < MaxSignals
    /\ pending' = pending \cup {sig}
    /\ nsig' = nsig + 1
    /\ sigsInTeardown' =
          IF entry = "session" /\ (pc \in ExitPcs \/ stack # <<>>)
          THEN sigsInTeardown + 1 ELSE sigsInTeardown
    /\ UNCHANGED <<entry, rcfile, env, selfenv, stats,
                   pc, stack, opts, argNets, globals, handlers, exc,
                   bodyExc, exitcode, procs, handles, codes, ret, waited,
                   calls, timer>>

\* The main thread runs its next statement only when no handler is due:
\* the interpreter calls a pending Python-level handler before it goes on,
\* and a blocking wait or sleep is interrupted for it.
Uninterrupted == pending = {}

\* A handler that returns without raising.
abort_Returns ==
    /\ handlers
    /\ ~Finished
    /\ \E sig \in pending : pending' = pending \ {sig}
    /\ UNCHANGED <<entry, rcfile, env, selfenv, stats,
                   pc, stack, exc, bodyExc, exitcode,
                   opts, argNets, globals, handlers, nsig,
                   sigsInTeardown, procs, handles, codes, ret, waited, calls,
                   timer>>

\* abort (lines 292-294): prints and raises SystemExit, wherever the main
\* thread is, also inside a wait, a sleep or __exit__.
abort ==
    /\ handlers
    /\ ~Finished
    /\ \E sig \in pending : pending' = pending \ {sig}
    /\ Raise("SystemExit")
    /\ UNCHANGED <<entry, rcfile, env, selfenv, stats,
                   opts, argNets, globals, handlers, nsig,
                   sigsInTeardown, procs, handles, codes, ret, waited, calls,
                   timer>>

\* ------------------------------------------------------------- docalls
\* docalls (lines 206-216).  The comprehension's first `for` iterates the
\* one-element list [Popen(...)], built once; the second `for` iterates
\* range(1, num + 1).  So one process is launched, whatever num is, and it
\* is waited on num times.
docallsLaunched(n) == 1

docalls ==
    /\ Uninterrupted
    /\ pc = "docalls"
    /\ calls' = Append(calls, "docalls")
    /\ codes' = <<>>
    /\ \/ /\ procs' = procs \o [i \in 1..docallsLaunched(opts.nets) |->
                                   Popen("cmd", 0)]
          /\ handles' = [i \in 1..docallsLaunched(opts.nets) |->
                            Len(procs) + i]
          /\ pc' = "docalls_wait"
          /\ UNCHANGED <<stack, exc, bodyExc, exitcode>>
       \/ \* Popen cannot start the program: OSError
          /\ Raise("OSError")
          /\ UNCHANGED <<procs, handles>>
    /\ UNCHANGED <<entry, rcfile, env, selfenv, stats,
                   opts, argNets, globals, handlers, pending, nsig,
                   sigsInTeardown, ret, waited, timer>>

docallsWait ==
    /\ Uninterrupted
    /\ pc = "docalls_wait"
    /\ IF Len(codes) < opts.nets
       THEN /\ procs[handles[1]].st = "done"
            /\ codes' = Collect(codes, procs[handles[1]].status)
            /\ UNCHANGED <<pc, stack, ret, waited>>
       ELSE /\ ret' = [done |-> TRUE, codes |-> codes]
            /\ waited' = handles
            /\ ReturnTo
            /\ UNCHANGED codes
    /\ UNCHANGED <<entry, rcfile, env, selfenv, stats,
                   opts, argNets, globals, handlers, pending, nsig,
                   sigsInTeardown, exc, bodyExc, exitcode, procs, handles,
                   calls, timer>>

\* ------------------------------------------------- makenets, makesubs
\* makenets (lines 219-225) calls docall, a name the module never binds:
\* NameError, before any argument is looked at.
makenets ==
    /\ Uninterrupted
    /\ pc = "makenets"
    /\ calls' = Append(calls, "makenets")
    /\ Raise("NameError")
    /\ UNCHANGED <<entry, rcfile, env, selfenv, stats,
                   opts, argNets, globals, handlers, pending, nsig,
                   sigsInTeardown, procs, handles, codes, ret, waited, timer>>

\* makesubs (lines 228-234): the inner comprehension calls docall for each
\* index of range(1, nets + 1); with no index the result is [].
makesubs ==
    /\ Uninterrupted
    /\ pc = "makesubs"
    /\ calls' = Append(calls, "makesubs")
    /\ LET r == RangeOutcome(argNets, opts.nets) IN
       IF r = "TypeError" THEN Raise("TypeError") /\ UNCHANGED <<ret, waited>>
       ELSE IF r = "some" THEN Raise("NameError") /\ UNCHANGED <<ret, waited>>
       ELSE /\ ret' = [done |-> TRUE, codes |-> <<>>]
            /\ waited' = <<>>
            /\ ReturnTo
            /\ UNCHANGED <<exc, bodyExc, exitcode>>
    /\ UNCHANGED <<entry, rcfile, env, selfenv, stats,
                   opts, argNets, globals, handlers, pending, nsig,
                   sigsInTeardown, procs, handles, codes, timer>>

\* --------------------------------------------------- delnets, delsubs
\* delnets / delsubs (lines 237-256).  Called without nets (line 194) the
\* call itself raises TypeError.  Popen's argument stdout=devnull names a
\* global the module never binds (docalls' devnull is a local): NameError
\* for the first index, before any process is launched.
DeleteBatch(name) ==
    /\ Uninterrupted
    /\ pc = name
    /\ calls' = Append(calls, name)
    /\ IF argNets = "none" THEN Raise("TypeError") /\ UNCHANGED <<ret, waited>>
       ELSE LET r == RangeOutcome(argNets, opts.nets) IN
       IF r = "TypeError" THEN Raise("TypeError") /\ UNCHANGED <<ret, waited>>
       ELSE IF r = "some" THEN Raise("NameError") /\ UNCHANGED <<ret, waited>>
       ELSE /\ ret' = [done |-> TRUE, codes |-> <<>>]
            /\ waited' = <<>>
            /\ ReturnTo
            /\ UNCHANGED <<exc, bodyExc, exitcode>>
    /\ UNCHANGED <<entry, rcfile, env, selfenv, stats,
                   opts, argNets, globals, handlers, pending, nsig,
                   sigsInTeardown, procs, handles, codes, timer>>

delnets == DeleteBatch("delnets")

delsubs == DeleteBatch("delsubs")

\* ------------------------------------------------------------- Spawner
\* Spawner.spawn (lines 66-75): with reset the list is cleared first; the
\* new Popen object is appended.  The caller spawns the batch's indices in
\* order, as every batch of the file iterates range(1, n + 1).
SpawnerSpawn(reset) ==
    /\ Uninterrupted
    /\ pc = "sp_idle"
    /\ Len(procs) < MaxProcs
    /\ LET kept == IF reset THEN <<>> ELSE handles IN
       \/ /\ procs' = Append(procs, Popen("cmd", Len(kept) + 1))
          /\ handles' = Append(kept, Len(procs) + 1)
          /\ UNCHANGED <<pc, stack, exc, bodyExc, exitcode>>
       \/ \* Popen cannot start the program: OSError, after the reset
          /\ handles' = kept
          /\ Raise("OSError")
          /\ UNCHANGED procs
    /\ UNCHANGED <<entry, rcfile, env, selfenv, stats,
                   opts, argNets, globals, handlers, pending, nsig,
                   sigsInTeardown, codes, ret, waited, calls, timer>>

\* Spawner.wait (lines 77-80), entered: nothing collected yet.
SpawnerWait ==
    /\ Uninterrupted
    /\ pc = "sp_idle"
    /\ pc' = "sp_wait"
    /\ codes' = <<>>
    /\ ret' = [done |-> FALSE, codes |-> <<>>]
    /\ UNCHANGED <<entry, rcfile, env, selfenv, stats,
                   stack, opts, argNets, globals, handlers, pending,
                   nsig, sigsInTeardown, exc, bodyExc, exitcode, procs,
                   handles, waited, calls, timer>>

\* Spawner.wait, line 78: proc.wait() for each proc of self.procs in list
\* order, each blocking until that process has terminated; then reset()
\* and return codes.
SpawnerWaitStep ==
    /\ Uninterrupted
    /\ pc = "sp_wait"
    /\ IF Len(codes) < Len(handles)
       THEN /\ procs[handles[Len(codes) + 1]].st = "done"
            /\ codes' = Collect(codes, procs[handles[Len(codes) + 1]].status)
            /\ UNCHANGED <<pc, handles, ret, waited>>
       ELSE /\ waited' = handles
            /\ handles' = <<>>
            /\ ret' = [done |-> TRUE, codes |-> codes]
            /\ pc' = "sp_idle"
            /\ UNCHANGED codes
    /\ UNCHANGED <<entry, rcfile, env, selfenv, stats,
                   stack, opts, argNets, globals, handlers, pending,
                   nsig, sigsInTeardown, exc, bodyExc, exitcode, procs, calls,
                   timer>>

\* ------------------------------------------------------------ coalesce
\* timer.cancel() (line 281): stops a timer that has not fired yet.
TimerCancel(t) == IF t = "armed" THEN "cancelled" ELSE t

\* The names of the networks this program makes ("net{0}", lines 224 and
\* 241), and the name of a network it did not make.
NetName(i) == <<"net", i>>

Preexisting == <<"ext", 0>>

ListedNames == {NetName(i) : i \in 1..MaxNets} \cup {Preexisting}

\* What `quantum net-list -c name -c subnets` can print: each network is
\* absent, listed without a subnet, or listed with one.
Listings == [ListedNames -> {"absent", "nosubnet", "subnet"}]

\* the rows of a listing, after the header line is dropped (line 275)
Rows(l) ==
    {[name |-> n, subnets |-> l[n] = "subnet"] :
        n \in {x \in ListedNames : l[x] # "absent"}}

\* The comprehension of lines 271-277 has no condition (the startswith
\* test of line 276 is commented out): every row is kept.
KeepsRow(r) == TRUE

\* coalesce (lines 259-281), one statement per step: arm the watchdog,
\* sleep, run the listing with check_output (which raises
\* CalledProcessError on a non-zero exit), print, cancel the watchdog.
\* Nothing compares the listing with nets, and no path but the last
\* statement cancels the timer.
coalesce ==
    /\ Uninterrupted
    /\ pc \in {"coalesce", "co_sleep", "co_query", "co_wait", "co_cancel"}
    /\ CASE pc = "coalesce" ->
              /\ calls' = Append(calls, "coalesce")
              /\ timer' = "armed"
              /\ pc' = "co_sleep"
              /\ UNCHANGED <<stack, exc, bodyExc, exitcode, procs, handles,
                             stats>>
         [] pc = "co_sleep" ->
              /\ pc' = "co_query"
              /\ UNCHANGED <<stack, exc, bodyExc, exitcode, procs, handles,
                             calls, timer, stats>>
         [] pc = "co_query" ->
              /\ \/ /\ procs' = Append(procs, Popen("net-list", 0))
                    /\ handles' = <<Len(procs) + 1>>
                    /\ pc' = "co_wait"
                    /\ UNCHANGED <<stack, exc, bodyExc, exitcode>>
                 \/ /\ Raise("OSError")
                    /\ UNCHANGED <<procs, handles>>
              /\ UNCHANGED <<calls, timer, stats>>
         [] pc = "co_wait" ->
              /\ procs[handles[1]].st = "done"
              /\ IF procs[handles[1]].status = 0
                 THEN /\ \E l \in Listings :
                            stats' = {r \in Rows(l) : KeepsRow(r)}
                      /\ pc' = "co_cancel"
                      /\ UNCHANGED <<stack, exc, bodyExc, exitcode>>
                 ELSE Raise("CalledProcessError") /\ UNCHANGED stats
              /\ UNCHANGED <<procs, handles, calls, timer>>
         [] pc = "co_cancel" ->
              /\ timer' = TimerCancel(timer)
              /\ ReturnTo
              /\ UNCHANGED <<exc, bodyExc, exitcode, procs, handles, calls,
                             stats>>
    /\ UNCHANGED <<entry, rcfile, env, selfenv,
                   opts, argNets, globals, handlers, pending, nsig,
                   sigsInTeardown, codes, ret, waited>>

\* The watchdog expires (lines 262-266): threading.Timer runs bail in the
\* timer's own thread, where SystemExit ends that thread and nothing else.
\* The main thread is not touched.
bail ==
    /\ timer = "armed"
    /\ timer' = "fired"
    /\ UNCHANGED <<entry, rcfile, env, selfenv, stats,
                   pc, stack, opts, argNets, globals, handlers,
                   pending, nsig, sigsInTeardown, exc, bodyExc, exitcode,
                   procs, handles, codes, ret, waited, calls>>

\* ------------------------------------------------------------ Networks
\* Networks.__init__ and __enter__ (lines 144-161): fields are set, a
\* Spawner is made, self is returned.  Nothing is launched.
NetworksEnter ==
    /\ Uninterrupted
    /\ pc \in {"ctor", "enter"}
    /\ pc' = IF pc = "ctor" THEN "enter" ELSE "body"
    /\ UNCHANGED <<entry, rcfile, env, selfenv, stats,
                   stack, opts, argNets, globals, handlers, pending,
                   nsig, sigsInTeardown, exc, bodyExc, exitcode, procs,
                   handles, codes, ret, waited, calls, timer>>

\* The body of `with Networks(...) as n:` is the caller's: it ends normally
\* or raises.
Body ==
    /\ Uninterrupted
    /\ pc = "body"
    /\ \/ /\ pc' = "exit"
          /\ UNCHANGED <<stack, exc, bodyExc, exitcode>>
       \/ Raise("Error")
    /\ UNCHANGED <<entry, rcfile, env, selfenv, stats,
                   opts, argNets, globals, handlers, pending, nsig,
                   sigsInTeardown, procs, handles, codes, ret, waited, calls,
                   timer>>

\* An __exit__ that does not look at keep.
ExitCleans_IgnoresKeep(keep) == TRUE

\* line 190: `if not self.keep:` decides whether __exit__ cleans up.
ExitCleans(keep) == ~keep

\* Networks.__exit__ (lines 188-203), one statement per step:
\*   190      the keep test
\*   191-193  two prints, the second reads the global opts
\*   194      delsubs(), called without its argument nets
\*   195-196  a print, then delnets(opts["<nets>"], creds)
\*   203      `return true`, a name Python does not bind
NetworksExit ==
    /\ Uninterrupted
    /\ pc \in ExitPcs
    /\ CASE pc = "exit" ->
              /\ calls' = Append(calls, "__exit__")
              /\ pc' = IF ExitCleans(opts.keep) THEN "exit_p1" ELSE "exit_ret"
              /\ UNCHANGED <<stack, argNets, exc, bodyExc, exitcode>>
         [] pc = "exit_p1" ->
              /\ IF "opts" \in globals
                 THEN pc' = "exit_delsubs" /\ UNCHANGED <<stack, exc, bodyExc,
                                                          exitcode>>
                 ELSE Raise("NameError")
              /\ UNCHANGED <<argNets, calls>>
         [] pc = "exit_delsubs" ->
              /\ pc' = "delsubs"
              /\ stack' = <<"exit_p2">> \o stack
              /\ argNets' = "none"
              /\ UNCHANGED <<exc, bodyExc, exitcode, calls>>
         [] pc = "exit_p2" ->
              /\ IF "creds" \in globals
                 THEN /\ pc' = "delnets"
                      /\ stack' = <<"exit_ret">> \o stack
                      /\ argNets' = "str"
                      /\ UNCHANGED <<exc, bodyExc, exitcode>>
                 ELSE Raise("NameError") /\ UNCHANGED argNets
              /\ UNCHANGED calls
         [] pc = "exit_ret" ->
              /\ Raise("NameError")
              /\ UNCHANGED <<argNets, calls>>
    /\ UNCHANGED <<entry, rcfile, env, selfenv, stats,
                   opts, globals, handlers, pending, nsig,
                   sigsInTeardown, procs, handles, codes, ret, waited, timer>>

\* --------------------------------------------------------- Credentials
\* The keys of the maps tried, and a name no map defines.
Keys == {"A", "B"}

Undefined == "X"

\* A value is a literal, $name or ${name}; text is the literal, or the name.
Values ==
    {[form |-> "lit", text |-> "1"]} \cup
    {[form |-> f, text |-> k] : f \in {"dollar", "brace"},
                                k \in Keys \cup {Undefined}}

EnvMaps == [Keys -> Values]

\* v.startswith("$") and v.startswith("${")
StartsWithDollar(v) == v.form \in {"dollar", "brace"}

StartsWithBrace(v) == v.form = "brace"

\* lines 95-97: one pass over env.items(); a value that starts with $ is
\* replaced by env[v[1:]], one that starts with ${ by env[v[2:-1]], the
\* value looked up being taken as it stands.
Fixup(m) ==
    [k \in DOMAIN m |->
        IF ~StartsWithDollar(m[k]) THEN m[k]
        ELSE IF ~StartsWithBrace(m[k]) THEN m[m[k].text]
        ELSE m[m[k].text]]

\* env[name] for a name env does not hold raises KeyError.
FixupRaises(m) ==
    \E k \in DOMAIN m : StartsWithDollar(m[k]) /\ m[k].text \notin DOMAIN m

\* A constructor whose failure is lost: the script goes on without
\* credentials.
CredentialsInit_Swallowed(file) == "ok"

\* Credentials.__init__, lines 87-91: open() raises OSError for a file
\* that cannot be read; otherwise file.readlines().strip() raises
\* AttributeError, a list having no strip.  No line of the file is parsed
\* and nothing is stored in env.
CredentialsInit(file) ==
    IF file = "missing" THEN "OSError" ELSE "AttributeError"

\* Credentials(path, env) called directly (lines 84-97): the parse of lines
\* 87-91, then the fixup of lines 95-97 over env.
Credentials ==
    /\ Uninterrupted
    /\ pc = "credentials"
    /\ LET r == CredentialsInit(opts.creds) IN
       IF r # "ok" THEN Raise(r) /\ UNCHANGED selfenv
       ELSE IF FixupRaises(env) THEN Raise("KeyError") /\ UNCHANGED selfenv
       ELSE /\ selfenv' = Fixup(env)
            /\ ReturnTo
            /\ UNCHANGED <<exc, bodyExc, exitcode>>
    /\ UNCHANGED <<entry, rcfile, env, stats, opts, argNets, globals,
                   handlers, pending, nsig, sigsInTeardown, procs, handles,
                   codes, ret, waited, calls, timer>>

\* -------------------------------------------------------------- script
\* Agents.__init__ (lines 111-130): self.key is "--node h", "--id u", ""
\* (--all) or None.  A non-empty key enters the lookup, whose format(key)
\* names an unbound local: NameError.  "" and None are false: no lookup.
AgentsInit(agent) ==
    IF agent \in {"node", "uuid"} THEN "NameError" ELSE "ok"

\* The script (lines 287-341), one statement per step.
Main ==
    /\ Uninterrupted
    /\ entry = "main"
    /\ pc \in {"install", "docopt", "creds", "agents", "mk_nets", "mk_subs",
               "mk_co", "loop", "else", "except"}
    /\ CASE pc = "install" ->                       \* lines 291-296
              /\ handlers' = TRUE
              /\ pc' = "docopt"
              /\ UNCHANGED <<stack, argNets, globals, exc, bodyExc, exitcode>>
         [] pc = "docopt" ->                        \* lines 299-300
              /\ globals' = globals \cup {"opts"}
              /\ pc' = "creds"
              /\ UNCHANGED <<stack, argNets, handlers, exc, bodyExc, exitcode>>
         [] pc = "creds" ->                         \* line 304
              /\ LET r == CredentialsInit(opts.creds) IN
                 IF r # "ok" THEN Raise(r) /\ UNCHANGED globals
                 ELSE IF FixupRaises(env)
                 THEN Raise("KeyError") /\ UNCHANGED globals
                 ELSE /\ globals' = globals \cup {"creds"}
                      /\ pc' = "agents"
                      /\ UNCHANGED <<stack, exc, bodyExc, exitcode>>
              /\ UNCHANGED <<argNets, handlers>>
         [] pc = "agents" ->                        \* line 305
              /\ LET r == AgentsInit(opts.agent) IN
                 IF r = "ok"
                 THEN pc' = "mk_nets" /\ UNCHANGED <<stack, exc, bodyExc,
                                                     exitcode>>
                 ELSE Raise(r)
              /\ UNCHANGED <<argNets, globals, handlers>>
         [] pc = "mk_nets" ->                       \* lines 313-314
              /\ pc' = "makenets"
              /\ stack' = <<"mk_subs">>
              /\ argNets' = "str"
              /\ UNCHANGED <<globals, handlers, exc, bodyExc, exitcode>>
         [] pc = "mk_subs" ->                       \* lines 315-316
              /\ pc' = "makesubs"
              /\ stack' = <<"mk_co">>
              /\ argNets' = "str"
              /\ UNCHANGED <<globals, handlers, exc, bodyExc, exitcode>>
         [] pc = "mk_co" ->                         \* lines 319-320
              /\ pc' = "coalesce"
              /\ stack' = <<"loop">>
              /\ argNets' = "str"
              /\ UNCHANGED <<globals, handlers, exc, bodyExc, exitcode>>
         [] pc = "loop" ->                          \* lines 327-335
              /\ pc' = "else"
              /\ UNCHANGED <<stack, argNets, globals, handlers, exc, bodyExc,
                             exitcode>>
         [] pc = "else" ->                          \* lines 340-341
              /\ pc' = "exited"
              /\ exitcode' = 0
              /\ UNCHANGED <<stack, argNets, globals, handlers, exc, bodyExc>>
         [] pc = "except" ->                        \* lines 337-339
              /\ pc' = "exited"
              /\ exitcode' = 1
              /\ UNCHANGED <<stack, argNets, globals, handlers, exc, bodyExc>>
    /\ UNCHANGED <<entry, rcfile, env, selfenv, stats,
                   opts, pending, nsig, sigsInTeardown, procs, handles,
                   codes, ret, waited, calls, timer>>

\* ------------------------------------------------------- specification
StartPc(e) ==
    CASE e = "main" -> "install"
      [] e = "session" -> "ctor"
      [] e = "spawner" -> "sp_idle"
      [] OTHER -> e

Init ==
    \E e \in Entries :
    \E n \in IF e \in {"makenets", "spawner", "credentials"}
              THEN {0} ELSE 0..MaxNets,
       k \in IF e \in {"main", "session"} THEN BOOLEAN ELSE {FALSE},
       h \in IF e = "main" THEN {FALSE} ELSE BOOLEAN,
       a \in IF e = "main" THEN {"none", "node", "uuid", "all"} ELSE {"none"},
       c \in IF e \in {"main", "credentials"}
              THEN {"missing", "readable"} ELSE {"readable"},
       g \in IF e = "session" THEN {{}, {"opts", "creds"}} ELSE {{}},
       f \in IF e = "credentials" THEN EnvMaps ELSE {<<>>},
       m \in IF e = "credentials" THEN EnvMaps \cup {<<>>} ELSE {<<>>} :
        /\ entry = e
        /\ pc = StartPc(e)
        /\ stack = <<>>
        /\ opts = [nets |-> n, keep |-> k, agent |-> a, creds |-> c]
        /\ argNets = IF e = "main" THEN "str" ELSE "int"
        /\ globals = g
        /\ handlers = h
        /\ pending = {}
        /\ nsig = 0
        /\ sigsInTeardown = 0
        /\ exc = "none"
        /\ bodyExc = "none"
        /\ exitcode = -1
        /\ procs = <<>>
        /\ handles = <<>>
        /\ codes = <<>>
        /\ ret = [done |-> FALSE, codes |-> <<>>]
        /\ waited = <<>>
        /\ calls = <<>>
        /\ timer = "none"
        /\ stats = {}
        /\ rcfile = f
        /\ env = m
        /\ selfenv = <<>>

Next ==
    \/ Main
    \/ NetworksEnter
    \/ Body
    \/ NetworksExit
    \/ docalls
    \/ docallsWait
    \/ makenets
    \/ makesubs
    \/ delnets
    \/ delsubs
    \/ \E r \in BOOLEAN : SpawnerSpawn(r)
    \/ SpawnerWait
    \/ SpawnerWaitStep
    \/ coalesce
    \/ Credentials
    \/ bail
    \/ abort
    \/ \E sig \in Signals : Deliver(sig)
    \/ \E i \in 1..MaxProcs, s \in 0..1 : Finish(i, s)

Spec == Init /\ [][Next]_vars

\* ------------------------------------------------- what the claims read
\* how often a function was invoked
Invoked(name) == Cardinality({i \in 1..Len(calls) : calls[i] = name})

\* the launched processes of a kind
Launched(kind) == {i \in 1..Len(procs) : procs[i].kind = kind}

\* A with-session has ended after its __exit__ was entered.
TornDown == entry = "session" /\ pc = "done" /\ Invoked("__exit__") >= 1

\* ------------------------------------------------------------------ C1
\* C1: whenever a session over N >= 1 networks with keep=false has ended
\* (normally, by an error or by an interrupt), the delete-subnets batch and
\* the delete-networks batch have each been invoked exactly once, and each
\* launched a delete operation for every index 1..N of the session.
C1_TeardownOnEveryExit ==
    (TornDown /\ ~opts.keep /\ opts.nets >= 1) =>
        /\ Invoked("delsubs") = 1
        /\ Invoked("delnets") = 1
        /\ \A n \in 1..opts.nets :
              /\ \E i \in Launched("subnet-delete") : procs[i].index = n
              /\ \E i \in Launched("net-delete") : procs[i].index = n

\* ------------------------------------------------------------------ C2
\* C2: with keep=true no delete batch is ever invoked and no delete
\* operation is ever launched, on any exit path.
C2_KeepDeletesNothing ==
    opts.keep =>
        /\ Invoked("delsubs") = 0
        /\ Invoked("delnets") = 0
        /\ Launched("subnet-delete") = {}
        /\ Launched("net-delete") = {}

\* A keep=true session whose __exit__ ran, after a body that raised.
C2_Witness ==
    TornDown /\ opts.keep /\ bodyExc = "Error" /\ globals # {}

\* ------------------------------------------------------------------ C5
\* C5: a batch over N >= 1 indices launches exactly N operations (one for
\* each index of 1..N), all of them before it waits on any: from the moment
\* it waits, and when it has ended, N operations have been launched.
C5_BatchLaunchesN ==
    (/\ entry \in {"docalls", "delnets"}
     /\ opts.nets >= 1
     /\ pc \in {"docalls_wait", "done"}
     /\ exc # "SystemExit") =>
        Len(procs) = opts.nets

\* ------------------------------------------------------------------ C6
\* C6: the list a batch wait returns is in index order, whatever the order
\* in which the operations terminated: position i holds the exit status of
\* the operation for index i, and there is one position per operation.
C6_ResultInIndexOrder ==
    (entry \in {"spawner", "delnets"} /\ ret.done) =>
        /\ Len(ret.codes) = Len(waited)
        /\ \A i \in 1..Len(waited) :
              /\ procs[waited[i]].index = i
              /\ ret.codes[i] = procs[waited[i]].status

\* A wait returned two different statuses, of two operations of which the
\* second terminated first.
C6_Witness ==
    /\ entry = "spawner"
    /\ ret.done
    /\ Len(waited) >= 2
    /\ procs[waited[2]].rank < procs[waited[1]].rank
    /\ ret.codes[1] # ret.codes[2]

\* ------------------------------------------------------------------ C7
\* C7: a batch that launched operations returns only after every one of
\* them has terminated, with one recorded status per launched operation; a
\* non-zero exit of one does not skip the others.
C7_BatchJoinsAll ==
    (entry \in {"docalls", "spawner"} /\ ret.done /\ waited # <<>>) =>
        /\ Len(ret.codes) = Len(waited)
        /\ \A i \in 1..Len(waited) : procs[waited[i]].st = "done"

\* ------------------------------------------------------------------ C8
\* C8: once the watchdog of the convergence wait has expired, the wait
\* does not return normally to its caller: the timeout is fatal.
C8_TimeoutIsFatal ==
    (entry = "coalesce" /\ timer = "fired") => ~(pc = "done" /\ exc = "none")

\* ------------------------------------------------------------------ C9
\* C9: when a session over N >= 1 networks with keep=false has been ended
\* by an interrupt after two interrupts were delivered while it was tearing
\* down, its delete sequence has been executed exactly once: delete-subnets
\* and delete-networks each invoked once, neither cut short.
C9_IdempotentAbort ==
    (/\ TornDown
     /\ ~opts.keep
     /\ opts.nets >= 1
     /\ sigsInTeardown >= 2
     /\ exc = "SystemExit") =>
        /\ Invoked("delsubs") = 1
        /\ Invoked("delnets") = 1

\* ----------------------------------------------------------------- C10
\* C10: the script invokes no create, delete or listing batch and launches
\* no operation when its credentials file cannot be read or when an agent
\* filter (--node, --uuid) is given whose lookup fails.
C10_NothingBeforeCredsAndAgents ==
    (entry = "main" /\ (calls # <<>> \/ procs # <<>>)) =>
        /\ opts.creds = "readable"
        /\ opts.agent \notin {"node", "uuid"}

\* The script has ended with status 1 on a credentials file it could not
\* read, having touched nothing.
C10_Witness ==
    /\ entry = "main"
    /\ pc = "exited"
    /\ exitcode = 1
    /\ opts.creds = "missing"
    /\ calls = <<>>
    /\ procs = <<>>

\* ----------------------------------------------------------------- C11
\* C11: when the script has ended after its top level caught an error
\* (line 337), its exit status is 1; an error never ends in status 0.
C11_ErrorExitsWithOne ==
    (entry = "main" /\ pc = "exited" /\ bodyExc # "none") => exitcode = 1

\* ----------------------------------------------------------------- C12
\* a map in which some value is still a $NAME / ${NAME} reference
Residual(m) == \E k \in DOMAIN m : m[k].form # "lit"

Lit1 == [form |-> "lit", text |-> "1"]

\* C12: when Credentials has ended on a readable file, it has either
\* returned a map without residual references or failed with an error; the
\* file {A: 1, B: $A} has given {A: 1, B: 1}, and the file {A: $B, B: $A}
\* has failed.
C12_ResolutionTotal ==
    (/\ entry = "credentials"
     /\ pc = "done"
     /\ opts.creds = "readable"
     /\ exc # "SystemExit") =>
        /\ \/ exc = "none" /\ ~Residual(selfenv)
           \/ exc \in Exceptions
        /\ rcfile = [k \in Keys |-> IF k = "A" THEN Lit1
                                    ELSE [form |-> "dollar", text |-> "A"]]
              => exc = "none" /\ selfenv = [k \in Keys |-> Lit1]
        /\ rcfile = [k \in Keys |-> [form |-> "dollar",
                                     text |-> IF k = "A" THEN "B" ELSE "A"]]
              => exc # "none"

\* ----------------------------------------------------------------- C13
\* the functions of the teardown, and the positions an interrupted unit
\* can still move to
TeardownCalls == {"__exit__", "delsubs", "delnets"}

TeardownPcs == ExitPcs \cup {"delsubs", "delnets", "done", "exited"}

\* C13: once a signal has been delivered, the main thread starts nothing
\* but teardown: every later step leaves it where it is or moves it into
\* __exit__, a delete batch or the end of the unit; no function other than
\* __exit__, delsubs and delnets is invoked and no process other than a
\* delete operation is launched.
C13_OnlyTeardownAfterInterrupt ==
    [][nsig >= 1 =>
          /\ pc' # pc => pc' \in TeardownPcs
          /\ Len(calls') > Len(calls) =>
                calls'[Len(calls')] \in TeardownCalls
          /\ Len(procs') > Len(procs) =>
                procs'[Len(procs')].kind \in {"net-delete", "subnet-delete"}
      ]_vars

\* The script was interrupted and has ended by abort's SystemExit.
C13_Witness ==
    /\ entry = "main"
    /\ nsig >= 1
    /\ pc = "exited"
    /\ exc = "SystemExit"
    /\ bodyExc = "none"

\* ----------------------------------------------------------------- C15
\* C15: when a session whose body raised an error has ended, after its
\* __exit__ ran, the caller observes that error.
C15_ErrorPropagates ==
    (TornDown /\ bodyExc \in Exceptions) => exc = bodyExc

\* ----------------------------------------------------------------- C16
\* C16: when the convergence wait for N >= 1 networks has returned
\* normally, the listing it read showed every network net1..netN with a
\* subnet.
C16_SuccessOnlyWhenConverged ==
    (entry = "coalesce" /\ pc = "done" /\ exc = "none" /\ opts.nets >= 1) =>
        \A i \in 1..opts.nets :
            [name |-> NetName(i), subnets |-> TRUE] \in stats

\* ----------------------------------------------------------------- C17
\* C17: every row of the snapshot the convergence wait built has a name of
\* the scheme net<index>; a network of another name is not in it.
C17_SnapshotOnlyOwnNames ==
    entry = "coalesce" => \A r \in stats : r.name[1] = "net"

\* ----------------------------------------------------------------- C18
\* C18: a process that cannot be started is not raised as an error out of
\* Spawner.spawn or docalls.
C18_LaunchFailureNotRaised ==
    entry \in {"spawner", "docalls"} => exc # "OSError"

\* ----------------------------------------------------------------- C20
\* C20: when the convergence wait has been left, by a normal return, by a
\* failing listing query or by an interrupt, its watchdog is not armed.
C20_WatchdogDisarmedOnExit ==
    (entry = "coalesce" /\ pc = "done") => timer # "armed"

====
